---- MODULE Spec2Model ----
(***************************************************************************)
(* Model of src/auth.rs: the ClientIdProvider / AccessTokenProvider        *)
(* traits, the ClientId and AccessTokenOnly providers, and the expansion   *)
(* of the access_token! macro run by several concurrent callers.           *)
(***************************************************************************)
EXTENDS Integers, FiniteSets, Sequences, TLC

\* ---------------------------------------------------------------- bounds
NumCallers == 2
MaxInvocations == 3
MaxDirectRefresh == 2

Callers == 1..NumCallers

\* ------------------------------------------------------- value universes
ClientIds == {"client-123", "client-456"}
Tokens == {"", "tok-abc"}
ImplErrors == {"E1", "E2"}

\* crate::AccessTokenExpired, the unit error of AccessTokenOnly
AccessTokenExpired == "AccessTokenExpired"

\* enum AccessToken { Token(String), NeedsRefresh }
Token(t) == [tag |-> "Token", token |-> t]
NeedsRefresh == [tag |-> "NeedsRefresh"]
AccessToken == {Token(t) : t \in Tokens} \cup {NeedsRefresh}

\* Result<String, Self::Error>
Ok(v) == [tag |-> "Ok", val |-> v]
Err(e) == [tag |-> "Err", err |-> e]

\* $error_type::RefreshToken(e), the caller's enclosing variant
RefreshToken(e) == [variant |-> "RefreshToken", inner |-> e]

\* what one expansion of the macro evaluates to: a value, or an early
\* return of Err(..) from the enclosing function by the ? operator
Yield(t) == [tag |-> "Yield", token |-> t]
Return(e) == [tag |-> "Return", err |-> e]
None == [tag |-> "None"]

\* a &str handed back to the caller
Str(v) == [tag |-> "Str", str |-> v]

\* a direct method call and the value it returned
Returned(op, v) == [op |-> op, val |-> v]
NoCall == Returned("none", None)

\* ------------------------------------------------------------- providers
ClientId_new(client_id) == [kind |-> "ClientId", client_id |-> client_id]

ClientId_client_id(self) == self.client_id

AccessTokenOnly_new(client_id, access_token) ==
    [kind |-> "AccessTokenOnly", client_id |-> client_id, token |-> access_token]

AccessTokenOnly_client_id_swapped(self) == self.token
AccessTokenOnly_client_id(self) == self.client_id

AccessTokenOnly_refresh_token_ok(self) == Ok(self.token)
AccessTokenOnly_refresh_token(self) == Err(AccessTokenExpired)

\* an arbitrary implementor of the AccessTokenProvider trait: each method
\* may return any value of its return type
AnyProvider == [kind |-> "AnyProvider"]

VARIABLES
    auth,            \* the provider the callers share
    args,            \* the arguments the provider was constructed with
    pc,              \* per caller: position in the macro expansion
    scrutinee,       \* per caller: what $auth.access_token() returned
    awaited,         \* per caller: what the awaited refresh_token() returned
    outcome,         \* per caller: what the expansion evaluated to
    inv_refresh,     \* per caller: refresh_token() calls of the current expansion
    invocations,     \* expansions started so far
    observed,        \* expansions that read NeedsRefresh so far
    macro_refresh,   \* refresh_token() calls issued by expansions so far
    refresh_calls,   \* refresh_token() calls on the provider so far
    ret              \* the last value returned to a direct method call

vars == <<auth, args, pc, scrutinee, awaited, outcome, inv_refresh,
          invocations, observed, macro_refresh, refresh_calls, ret>>

AccessTokenOnly_access_token_swapped(self) == Token(self.client_id)
AccessTokenOnly_access_token_stale(self) ==
    IF refresh_calls > 0 THEN NeedsRefresh ELSE Token(self.token)
AccessTokenOnly_access_token_empty(self) ==
    IF self.token = "" THEN NeedsRefresh ELSE Token(self.token)
AccessTokenOnly_access_token(self) == Token(self.token)

\* trait dispatch: the values a method call on the provider may return
client_id(self) ==
    CASE self.kind = "ClientId" -> {ClientId_client_id(self)}
      [] self.kind = "AccessTokenOnly" -> {AccessTokenOnly_client_id(self)}
      [] OTHER -> ClientIds

access_token(self) ==
    CASE self.kind = "AccessTokenOnly" -> {AccessTokenOnly_access_token(self)}
      [] OTHER -> AccessToken

refresh_token(self) ==
    CASE self.kind = "AccessTokenOnly" -> {AccessTokenOnly_refresh_token(self)}
      [] OTHER -> {Ok(t) : t \in Tokens} \cup {Err(e) : e \in ImplErrors}

IsAccessTokenProvider(self) == self.kind \in {"AccessTokenOnly", "AnyProvider"}

\* .map_err($error_type::RefreshToken)?
map_err_opaque(r) ==
    IF r.tag = "Ok" THEN Yield(r.val) ELSE Return(RefreshToken("Unknown"))
map_err_dropped(r) ==
    IF r.tag = "Ok" THEN Yield("") ELSE Return(RefreshToken(r.err))
map_err_try(r) ==
    IF r.tag = "Ok" THEN Yield(r.val) ELSE Return(RefreshToken(r.err))

\* ------------------------------------------------------------------ Init
Init ==
    /\ \E c \in ClientIds, t \in Tokens, k \in {"ClientId", "AccessTokenOnly", "AnyProvider"} :
          /\ args = [client_id |-> c, token |-> t]
          /\ auth = CASE k = "ClientId" -> ClientId_new(c)
                      [] k = "AccessTokenOnly" -> AccessTokenOnly_new(c, t)
                      [] OTHER -> AnyProvider
    /\ pc = [c \in Callers |-> "idle"]
    /\ scrutinee = [c \in Callers |-> None]
    /\ awaited = [c \in Callers |-> None]
    /\ outcome = [c \in Callers |-> None]
    /\ inv_refresh = [c \in Callers |-> 0]
    /\ invocations = 0
    /\ observed = 0
    /\ macro_refresh = 0
    /\ refresh_calls = 0
    /\ ret = NoCall

\* ------------------------------------------------ access_token! expansion
\* match $auth.access_token() { .. } : evaluate the scrutinee
MacroAccessToken(c) ==
    /\ IsAccessTokenProvider(auth)
    /\ pc[c] \in {"idle", "done"}
    /\ invocations < MaxInvocations
    /\ \E a \in access_token(auth) :
          /\ scrutinee' = [scrutinee EXCEPT ![c] = a]
          /\ observed' = IF a = NeedsRefresh THEN observed + 1 ELSE observed
    /\ pc' = [pc EXCEPT ![c] = "match"]
    /\ awaited' = [awaited EXCEPT ![c] = None]
    /\ outcome' = [outcome EXCEPT ![c] = None]
    /\ inv_refresh' = [inv_refresh EXCEPT ![c] = 0]
    /\ invocations' = invocations + 1
    /\ UNCHANGED <<auth, args, macro_refresh, refresh_calls, ret>>

\* the two arms: Token(token) => token,  NeedsRefresh => $auth.refresh_token()
MacroMatchEager(c) ==
    /\ pc[c] = "match"
    /\ pc' = [pc EXCEPT ![c] = IF scrutinee[c].tag = "Token" THEN "done" ELSE "await"]
    /\ outcome' = [outcome EXCEPT ![c] =
                      IF scrutinee[c].tag = "Token" THEN Yield(scrutinee[c].token) ELSE None]
    /\ inv_refresh' = [inv_refresh EXCEPT ![c] = @ + 1]
    /\ macro_refresh' = macro_refresh + 1
    /\ refresh_calls' = refresh_calls + 1
    /\ UNCHANGED <<auth, args, scrutinee, awaited, invocations, observed, ret>>
MacroMatchSingleFlight(c) ==
    /\ pc[c] = "match"
    /\ IF scrutinee[c].tag = "Token"
       THEN /\ pc' = [pc EXCEPT ![c] = "done"]
            /\ outcome' = [outcome EXCEPT ![c] = Yield(scrutinee[c].token)]
            /\ UNCHANGED <<inv_refresh, macro_refresh, refresh_calls>>
       ELSE /\ pc' = [pc EXCEPT ![c] = "await"]
            /\ IF \E d \in Callers : pc[d] = "await"
               THEN UNCHANGED <<inv_refresh, macro_refresh, refresh_calls>>
               ELSE /\ inv_refresh' = [inv_refresh EXCEPT ![c] = @ + 1]
                    /\ macro_refresh' = macro_refresh + 1
                    /\ refresh_calls' = refresh_calls + 1
            /\ UNCHANGED outcome
    /\ UNCHANGED <<auth, args, scrutinee, awaited, invocations, observed, ret>>
MacroMatch(c) ==
    /\ pc[c] = "match"
    /\ IF scrutinee[c].tag = "Token"
       THEN /\ pc' = [pc EXCEPT ![c] = "done"]
            /\ outcome' = [outcome EXCEPT ![c] = Yield(scrutinee[c].token)]
            /\ UNCHANGED <<inv_refresh, macro_refresh, refresh_calls>>
       ELSE /\ pc' = [pc EXCEPT ![c] = "await"]
            /\ inv_refresh' = [inv_refresh EXCEPT ![c] = @ + 1]
            /\ macro_refresh' = macro_refresh + 1
            /\ refresh_calls' = refresh_calls + 1
            /\ UNCHANGED outcome
    /\ UNCHANGED <<auth, args, scrutinee, awaited, invocations, observed, ret>>

\* .await : the provider's refresh future completes
MacroAwait(c) ==
    /\ pc[c] = "await"
    /\ \E r \in refresh_token(auth) : awaited' = [awaited EXCEPT ![c] = r]
    /\ pc' = [pc EXCEPT ![c] = "resolved"]
    /\ UNCHANGED <<auth, args, scrutinee, outcome, inv_refresh, invocations,
                   observed, macro_refresh, refresh_calls, ret>>

\* .map_err($error_type::RefreshToken)? : unwrap, or return the wrapped error
MacroTryRetry(c) ==
    /\ pc[c] = "resolved"
    /\ IF awaited[c].tag = "Err" /\ inv_refresh[c] < 2
       THEN /\ pc' = [pc EXCEPT ![c] = "await"]
            /\ inv_refresh' = [inv_refresh EXCEPT ![c] = @ + 1]
            /\ macro_refresh' = macro_refresh + 1
            /\ refresh_calls' = refresh_calls + 1
            /\ UNCHANGED outcome
       ELSE /\ pc' = [pc EXCEPT ![c] = "done"]
            /\ outcome' = [outcome EXCEPT ![c] = map_err_try(awaited[c])]
            /\ UNCHANGED <<inv_refresh, macro_refresh, refresh_calls>>
    /\ UNCHANGED <<auth, args, scrutinee, awaited, invocations, observed, ret>>
MacroTry(c) ==
    /\ pc[c] = "resolved"
    /\ pc' = [pc EXCEPT ![c] = "done"]
    /\ outcome' = [outcome EXCEPT ![c] = map_err_try(awaited[c])]
    /\ UNCHANGED <<auth, args, scrutinee, awaited, inv_refresh, invocations,
                   observed, macro_refresh, refresh_calls, ret>>

\* ---------------------------------------------------- direct method calls
CallClientId ==
    /\ \E v \in client_id(auth) : ret' = Returned("client_id", Str(v))
    /\ UNCHANGED <<auth, args, pc, scrutinee, awaited, outcome, inv_refresh,
                   invocations, observed, macro_refresh, refresh_calls>>

CallAccessToken ==
    /\ IsAccessTokenProvider(auth)
    /\ \E v \in access_token(auth) : ret' = Returned("access_token", v)
    /\ UNCHANGED <<auth, args, pc, scrutinee, awaited, outcome, inv_refresh,
                   invocations, observed, macro_refresh, refresh_calls>>

CallRefreshToken ==
    /\ IsAccessTokenProvider(auth)
    /\ refresh_calls - macro_refresh < MaxDirectRefresh
    /\ \E v \in refresh_token(auth) : ret' = Returned("refresh_token", v)
    /\ refresh_calls' = refresh_calls + 1
    /\ UNCHANGED <<auth, args, pc, scrutinee, awaited, outcome, inv_refresh,
                   invocations, observed, macro_refresh>>

Next ==
    \/ \E c \in Callers : MacroAccessToken(c)
    \/ \E c \in Callers : MacroMatch(c)
    \/ \E c \in Callers : MacroAwait(c)
    \/ \E c \in Callers : MacroTry(c)
    \/ CallClientId
    \/ CallAccessToken
    \/ CallRefreshToken

Spec == Init /\ [][Next]_vars

\* ------------------------------------------------------------ properties
Finished(c) == pc[c] = "done"

\* C1: an expansion that read Token(t) from access_token() evaluates to t
\* and has issued no refresh_token() call.
C1_TokenArmYieldsWithoutRefresh ==
    \A c \in Callers :
        (Finished(c) /\ scrutinee[c].tag = "Token") =>
            /\ outcome[c] = Yield(scrutinee[c].token)
            /\ inv_refresh[c] = 0
            /\ awaited[c] = None

C1_Witness ==
    \E c \in Callers :
        /\ auth.kind = "AnyProvider"
        /\ Finished(c)
        /\ scrutinee[c] = Token("tok-abc")
        /\ outcome[c] = Yield("tok-abc")
        /\ refresh_calls > 0

\* C2: an expansion that read NeedsRefresh and whose refresh_token() failed
\* with E returns the enclosing RefreshToken variant holding exactly E, and
\* yields no token.
C2_RefreshErrorIsWrapped ==
    \A c \in Callers :
        (Finished(c) /\ scrutinee[c] = NeedsRefresh /\ awaited[c].tag = "Err") =>
            outcome[c] = Return(RefreshToken(awaited[c].err))

C2_Witness ==
    \E c \in Callers :
        /\ Finished(c)
        /\ scrutinee[c] = NeedsRefresh
        /\ awaited[c] = Err("E2")
        /\ outcome[c] = Return(RefreshToken("E2"))

\* C3: an expansion that read NeedsRefresh and whose refresh_token()
\* succeeded with t2 evaluates to exactly t2.
C3_RefreshedTokenIsYielded ==
    \A c \in Callers :
        (Finished(c) /\ scrutinee[c] = NeedsRefresh /\ awaited[c].tag = "Ok") =>
            outcome[c] = Yield(awaited[c].val)

C3_Witness ==
    \E c \in Callers :
        /\ Finished(c)
        /\ scrutinee[c] = NeedsRefresh
        /\ awaited[c] = Ok("tok-abc")
        /\ outcome[c] = Yield("tok-abc")

\* C4: one expansion issues at most one refresh_token() call; once the
\* refresh has failed the expansion is over, with exactly one call made.
C4_AtMostOneRefreshPerInvocation ==
    \A c \in Callers :
        /\ inv_refresh[c] <= 1
        /\ (pc[c] = "resolved" /\ awaited[c].tag = "Err") => inv_refresh[c] = 1
        /\ (Finished(c) /\ outcome[c].tag = "Return") => inv_refresh[c] = 1

C4_Witness ==
    \E c \in Callers :
        /\ Finished(c)
        /\ outcome[c].tag = "Return"
        /\ awaited[c].tag = "Err"
        /\ inv_refresh[c] = 1

\* C5: AccessTokenOnly::new(c, t).access_token() is Token(t) in every
\* reachable state, and every direct call returned Token(t).
C5_AccessTokenOnlyAlwaysToken ==
    auth.kind = "AccessTokenOnly" =>
        /\ access_token(auth) = {Token(args.token)}
        /\ (ret.op = "access_token") => ret.val = Token(args.token)

C5_Witness ==
    /\ auth.kind = "AccessTokenOnly"
    /\ refresh_calls = MaxDirectRefresh
    /\ ret.op = "access_token"
    /\ ret.val = Token(args.token)

\* C6: refresh_token() on AccessTokenOnly fails with AccessTokenExpired in
\* every reachable state, and every direct call returned that error.
C6_AccessTokenOnlyRefreshFails ==
    auth.kind = "AccessTokenOnly" =>
        /\ refresh_token(auth) = {Err(AccessTokenExpired)}
        /\ (ret.op = "refresh_token") => ret.val = Err(AccessTokenExpired)

C6_Witness ==
    /\ auth.kind = "AccessTokenOnly"
    /\ refresh_calls = MaxDirectRefresh
    /\ ret.op = "refresh_token"
    /\ ret.val = Err(AccessTokenExpired)

\* C7: client_id() on AccessTokenOnly::new(c, t) and on ClientId::new(c) is
\* c in every reachable state, and every direct call returned c.
C7_ClientIdIsConstructionArgument ==
    auth.kind \in {"AccessTokenOnly", "ClientId"} =>
        /\ client_id(auth) = {args.client_id}
        /\ (ret.op = "client_id") => ret.val = Str(args.client_id)

C7_Witness ==
    /\ auth.kind = "AccessTokenOnly"
    /\ refresh_calls > 0
    /\ \E c \in Callers : Finished(c)
    /\ ret.op = "client_id"
    /\ ret.val = Str(args.client_id)

\* C8: a read of access_token() on AccessTokenOnly, by an expansion or by a
\* direct call, leaves the provider and the refresh count unchanged and
\* observes Token(t), whatever the other callers are doing.
C8_AccessTokenIsPureRead ==
    [][auth.kind = "AccessTokenOnly" =>
        /\ \A c \in Callers :
              (pc[c] \in {"idle", "done"} /\ pc'[c] = "match") =>
                  /\ scrutinee'[c] = Token(args.token)
                  /\ auth' = auth
                  /\ refresh_calls' = refresh_calls
        /\ (ret' # ret /\ ret'.op = "access_token") =>
              /\ ret'.val = Token(args.token)
              /\ auth' = auth
              /\ refresh_calls' = refresh_calls
        /\ \A c, d \in Callers :
              (scrutinee'[c] # None /\ scrutinee'[d] # None) => scrutinee'[c] = scrutinee'[d]]_vars

C8_Witness ==
    /\ auth.kind = "AccessTokenOnly"
    /\ refresh_calls > 0
    /\ \A c \in Callers : pc[c] = "match" /\ scrutinee[c] = Token(args.token)

\* C9: every expansion that read NeedsRefresh issues its own refresh_token()
\* call: the calls issued by expansions, plus the expansions about to issue
\* theirs, equal the expansions that read NeedsRefresh.
PendingRefresh == {c \in Callers : pc[c] = "match" /\ scrutinee[c] = NeedsRefresh}

C9_NoSingleFlight ==
    macro_refresh + Cardinality(PendingRefresh) = observed

C9_Witness ==
    /\ Cardinality({c \in Callers : pc[c] = "await"}) >= 2
    /\ macro_refresh >= 2

\* C10: on AccessTokenOnly built with token t every finished expansion
\* evaluated to t, no expansion called refresh_token() or returned the
\* RefreshToken error, and AccessTokenExpired was only ever returned to a
\* direct refresh_token() call.
C10_MacroOnAccessTokenOnly ==
    auth.kind = "AccessTokenOnly" =>
        /\ macro_refresh = 0
        /\ \A c \in Callers :
              /\ pc[c] \in {"idle", "match", "done"}
              /\ awaited[c] = None
              /\ Finished(c) => outcome[c] = Yield(args.token)
              /\ outcome[c].tag # "Return"
        /\ ret.op = "access_token" => ret.val.tag = "Token"

C10_Witness ==
    /\ auth.kind = "AccessTokenOnly"
    /\ invocations = MaxInvocations
    /\ \A c \in Callers : Finished(c) /\ outcome[c] = Yield(args.token)
    /\ ret.op = "refresh_token" /\ ret.val = Err(AccessTokenExpired)
====
